---- MODULE Spec2Model ----
(***************************************************************************)
(* N-Triples lexer of rdf-rs: src/reader/lexer/n_triples_lexer.rs.         *)
(*                                                                         *)
(* The lexer owns a character source (InputReader) and a one-token         *)
(* lookahead cache (peeked_token).  The character source is modelled as    *)
(* the input text plus a cursor; a character is a one-character string.    *)
(***************************************************************************)
EXTENDS Naturals, Sequences, FiniteSets

VARIABLES
  input,         \* the text behind InputReader<R> (never changes)
  pos,           \* InputReader cursor: index of the next unread character
  peeked_token,  \* NTriplesLexer.peeked_token (None or a token)
  out,           \* tokens returned so far by successful get_next_token calls
  hist,          \* records of the most recent calls (at most three), oldest first
  expect         \* the tokens the input was written to stand for (<<>>: free text)

vars == <<input, pos, peeked_token, out, hist, expect>>

----------------------------------------------------------------------------
(* Bounds of the model *)

\* pieces concatenated to form an input of the general specification
MaxPieces == 3
\* get_next_token calls that are recorded per behaviour
MaxOut == 5
\* characters in the payload of a generated token
MaxText == 1
\* whitespace characters in a generated gap between tokens
MaxGap == 2
\* tokens in an input generated for the whitespace specification
MaxLexemes == 3
\* comment lines in an input generated for the comment specification
MaxComments == 2

----------------------------------------------------------------------------
(* Characters *)

Hash       == "#"
Quote      == "\""
Lt         == "<"
Gt         == ">"
Underscore == "_"
Colon      == ":"
Dot        == "."
Space      == " "
Newline    == "\n"
Return     == "\r"
At         == "@"
Caret      == "^"
Letter     == "a"

\* Option<char>::None
NoChar == ""

\* the closure of get_comment: |c| c == '\n' || c == '\r'
LineEnding == {Newline, Return}

\* characters the reader's "discard leading spaces" operations skip
Whitespace == {Space, Newline, Return}

\* InputReaderHelper::node_delimiter
node_delimiter == Whitespace \cup {Dot, Lt, Quote, Underscore}

----------------------------------------------------------------------------
(* Tokens (token.rs) and errors *)

Token(kind, a, b) == [kind |-> kind, a |-> a, b |-> b]

\* Option<Token>::None
None == Token("None", <<>>, <<>>)

Comment(chars)                             == Token("Comment", chars, <<>>)
Literal(chars)                             == Token("Literal", chars, <<>>)
LiteralWithUrlDatatype(chars, uri)         == Token("LiteralWithUrlDatatype", chars, uri)
LiteralWithLanguageSpecification(chars, l) == Token("LiteralWithLanguageSpecification", chars, l)
Uri(chars)                                 == Token("Uri", chars, <<>>)
BlankNode(chars)                           == Token("BlankNode", chars, <<>>)
TripleDelimiter                            == Token("TripleDelimiter", <<>>, <<>>)
EndOfInput                                 == Token("EndOfInput", <<>>, <<>>)

\* Error::new(error_type, message): the message is kept as the character it names
Error(type, what) == [type |-> type, what |-> what]
NoError == Error("none", NoChar)

\* Result<Token> together with the cursor the call leaves behind
Ok(tok, p)  == [ok |-> TRUE,  tok |-> tok,  err |-> NoError, pos |-> p]
Err(err, p) == [ok |-> FALSE, tok |-> None, err |-> err,     pos |-> p]

----------------------------------------------------------------------------
(* Character source: InputReader (reader/input_reader.rs) *)

Min(S) == CHOOSE x \in S : \A y \in S : x <= y

\* peek_next_char: the character under the cursor, not consumed
peek_next_char(s, p) == IF p <= Len(s) THEN s[p] ELSE NoChar

\* consume_next_char (TokensFromRdf): step over one character, if there is one
consume_next_char(s, p) == IF p <= Len(s) THEN p + 1 ELSE p

\* get_next_char: the character under the cursor, consumed
get_next_char(s, p) == [c |-> peek_next_char(s, p), pos |-> consume_next_char(s, p)]

\* cursor after the leading whitespace is discarded
discard_leading_spaces(s, p) ==
  LET rest == {i \in p..Len(s) : s[i] \notin Whitespace}
  IN  IF rest = {} THEN Len(s) + 1 ELSE Min(rest)

\* peek_next_char_discard_leading_spaces
peek_next_char_discard_leading_spaces(s, p) ==
  LET q == discard_leading_spaces(s, p)
  IN  [c |-> peek_next_char(s, q), pos |-> q]

\* get_until(delimiter): the characters before the first delimiter, which is
\* left unread; without a delimiter the error EndOfInput(chars read so far)
get_until(s, p, delimiter) ==
  LET hits == {i \in p..Len(s) : s[i] \in delimiter}
  IN  IF hits = {}
      THEN [ok |-> FALSE, chars |-> SubSeq(s, p, Len(s)), pos |-> Len(s) + 1]
      ELSE [ok |-> TRUE, chars |-> SubSeq(s, p, Min(hits) - 1), pos |-> Min(hits)]

\* get_until_discard_leading_spaces(delimiter)
get_until_discard_leading_spaces(s, p, delimiter) ==
  get_until(s, discard_leading_spaces(s, p), delimiter)

----------------------------------------------------------------------------
(* Rules: trait TokensFromNTriples *)

\* get_comment reading with get_until: leading spaces stay in the payload
get_comment_keeps_spaces(s, p) ==
  LET p1 == consume_next_char(s, p)
      r  == get_until(s, p1, LineEnding)
  IN  IF r.ok
      THEN Ok(Comment(r.chars), consume_next_char(s, r.pos))
      ELSE Ok(Comment(r.chars), r.pos)

\* get_comment propagating the end-of-input error of the reader
get_comment_fails_at_end(s, p) ==
  LET p1 == consume_next_char(s, p)
      r  == get_until_discard_leading_spaces(s, p1, LineEnding)
  IN  IF r.ok
      THEN Ok(Comment(r.chars), consume_next_char(s, r.pos))
      ELSE Err(Error("EndOfInput", NoChar), r.pos)

get_comment(s, p) ==
  LET p1 == consume_next_char(s, p)
      r  == get_until_discard_leading_spaces(s, p1, LineEnding)
  IN  IF r.ok
      THEN Ok(Comment(r.chars), consume_next_char(s, r.pos))
      ELSE Ok(Comment(r.chars), r.pos)

\* get_language_specification that also consumes the delimiter it stops at
get_language_specification_eats_delimiter(s, p) ==
  LET r == get_until(s, p, node_delimiter)
  IN  [chars |-> r.chars, pos |-> consume_next_char(s, r.pos)]

get_language_specification(s, p) ==
  LET r == get_until(s, p, node_delimiter)
  IN  [chars |-> r.chars, pos |-> r.pos]

\* get_uri without line 91: the closing '>' is left unread
get_uri_keeps_gt(s, p) ==
  LET p1 == consume_next_char(s, p)
      r  == get_until(s, p1, {Gt})
  IN  IF r.ok
      THEN Ok(Uri(r.chars), r.pos)
      ELSE Err(Error("EndOfInput", NoChar), r.pos)

\* get_uri turning the end of the input into a Uri of the characters read
get_uri_accepts_end(s, p) ==
  LET p1 == consume_next_char(s, p)
      r  == get_until(s, p1, {Gt})
  IN  IF r.ok
      THEN Ok(Uri(r.chars), consume_next_char(s, r.pos))
      ELSE Ok(Uri(r.chars), r.pos)

get_uri(s, p) ==
  LET p1 == consume_next_char(s, p)
      r  == get_until(s, p1, {Gt})
  IN  IF r.ok
      THEN Ok(Uri(r.chars), consume_next_char(s, r.pos))
      ELSE Err(Error("EndOfInput", NoChar), r.pos)

\* the datatype branch without line 63: one '^' is consumed
get_literal_datatype_one_caret(s, p, literal) ==
  LET p1 == consume_next_char(s, p)
      c  == peek_next_char(s, p1)
      u  == get_uri(s, p1)
  IN  IF c = Lt
      THEN IF ~u.ok THEN u
           ELSE IF u.tok.kind = "Uri"
                THEN Ok(LiteralWithUrlDatatype(literal, u.tok.a), u.pos)
                ELSE Err(Error("InvalidReaderInput", NoChar), u.pos)
      ELSE Err(Error("InvalidReaderInput", c), p1)

\* the datatype branch of get_literal, entered with the cursor on '^'
get_literal_datatype(s, p, literal) ==
  LET p1 == consume_next_char(s, consume_next_char(s, p))
      c  == peek_next_char(s, p1)
      u  == get_uri(s, p1)
  IN  IF c = Lt
      THEN IF ~u.ok THEN u
           ELSE IF u.tok.kind = "Uri"
                THEN Ok(LiteralWithUrlDatatype(literal, u.tok.a), u.pos)
                ELSE Err(Error("InvalidReaderInput", NoChar), u.pos)
      ELSE Err(Error("InvalidReaderInput", c), p1)

\* the last arm of get_literal: one more character is consumed
get_literal_plain(s, p, literal) ==
  Ok(Literal(literal), consume_next_char(s, p))

get_literal(s, p) ==
  LET p1 == consume_next_char(s, p)
      r  == get_until(s, p1, {Quote})
      p2 == consume_next_char(s, r.pos)
      c  == peek_next_char(s, p2)
      l  == get_language_specification(s, consume_next_char(s, p2))
  IN  IF ~r.ok THEN Err(Error("EndOfInput", NoChar), r.pos)
      ELSE IF c = At
           THEN Ok(LiteralWithLanguageSpecification(r.chars, l.chars), l.pos)
      ELSE IF c = Caret
           THEN get_literal_datatype(s, p2, r.chars)
      ELSE get_literal_plain(s, p2, r.chars)

\* get_blank_node accepting any character after '_'
get_blank_node_any_char(s, p) ==
  LET p1 == consume_next_char(s, p)
      g  == get_next_char(s, p1)
      r  == get_until(s, g.pos, node_delimiter)
  IN  Ok(BlankNode(r.chars), r.pos)

get_blank_node(s, p) ==
  LET p1 == consume_next_char(s, p)
      g  == get_next_char(s, p1)
      r  == get_until(s, g.pos, node_delimiter)
  IN  IF g.c # Colon
      THEN Err(Error("InvalidReaderInput", g.c), g.pos)
      ELSE Ok(BlankNode(r.chars), r.pos)

----------------------------------------------------------------------------
(* Lexer: impl RdfLexer for NTriplesLexer *)

\* dispatching with peek_next_char: leading whitespace is not discarded
next_significant_char_no_discard(s, p) == [c |-> peek_next_char(s, p), pos |-> p]

\* the character get_next_token dispatches on
next_significant_char(s, p) == peek_next_char_discard_leading_spaces(s, p)

\* the arm None failing with an end-of-input error
at_end_of_input_fails(p) == Err(Error("EndOfInput", NoChar), p)

\* the arm None of get_next_token: the source is exhausted
at_end_of_input(p) == Ok(EndOfInput, p)

\* the arm Some(c) consuming the character and reporting the end of input
unexpected_char_ignored(c, p) == Ok(EndOfInput, p + 1)

\* the arm Some(c) reading the character with get_next_char: c is consumed
unexpected_char_consumed(c, p) == Err(Error("InvalidReaderInput", c), p + 1)

\* the arm Some(c) of get_next_token: "Invalid input: " + c; c stays unread
unexpected_char(c, p) == Err(Error("InvalidReaderInput", c), p)

\* the arm Some('.') without line 182: '.' is not consumed
triple_delimiter_unread(s, p) == Ok(TripleDelimiter, p)

\* the arm Some('.') of get_next_token: consume '.', return TripleDelimiter
triple_delimiter(s, p) == Ok(TripleDelimiter, consume_next_char(s, p))

\* get_next_token with an empty cache: dispatch on the next significant character
dispatch(s, p) ==
  LET d == next_significant_char(s, p)
  IN  CASE d.c = Hash       -> get_comment(s, d.pos)
        [] d.c = Quote      -> get_literal(s, d.pos)
        [] d.c = Lt         -> get_uri(s, d.pos)
        [] d.c = Underscore -> get_blank_node(s, d.pos)
        [] d.c = Dot        -> triple_delimiter(s, d.pos)
        [] d.c = NoChar     -> at_end_of_input(d.pos)
        [] OTHER            -> unexpected_char(d.c, d.pos)

\* get_next_token without line 170: the cached token stays in the cache
get_next_token_keeps_cache(s, p, cache) ==
  IF cache # None
  THEN [res |-> Ok(cache, p), cache |-> cache]
  ELSE [res |-> dispatch(s, p), cache |-> None]

\* get_next_token: the result, with the cache it leaves
get_next_token(s, p, cache) ==
  IF cache # None
  THEN [res |-> Ok(cache, p), cache |-> None]
  ELSE [res |-> dispatch(s, p), cache |-> None]

\* peek_next_token without line 220: nothing is cached
peek_cache_none(res) == None

\* peek_next_token caching a token for a failed inner call
peek_cache_on_failure(res) == IF res.ok THEN res.tok ELSE EndOfInput

\* what peek_next_token stores in the cache for the result of its inner call:
\* a failure returns through `?` before the assignment
peek_cache(res) == IF res.ok THEN res.tok ELSE None

\* peek_next_token without the cached arm: every peek reads the source
peek_next_token_always_reads(s, p, cache) ==
  LET g == dispatch(s, p)
  IN  [res |-> g, cache |-> peek_cache(g)]

\* peek_next_token: the result, with the cache it leaves
peek_next_token(s, p, cache) ==
  IF cache # None
  THEN [res |-> Ok(cache, p), cache |-> cache]
  ELSE LET g == get_next_token(s, p, cache)
       IN  [res |-> g.res, cache |-> peek_cache(g.res)]

\* n successive get_next_token calls on a lexer that is never peeked: the
\* tokens returned, and whether all n calls succeeded
RECURSIVE get_next_tokens(_, _, _)
get_next_tokens(s, p, n) ==
  IF n = 0 THEN [ok |-> TRUE, toks |-> <<>>]
  ELSE LET g == get_next_token(s, p, None)
       IN  IF ~g.res.ok THEN [ok |-> FALSE, toks |-> <<>>]
           ELSE LET rest == get_next_tokens(s, g.res.pos, n - 1)
                IN  [ok |-> rest.ok, toks |-> <<g.res.tok>> \o rest.toks]

----------------------------------------------------------------------------
(* History of calls *)

Call(op, r) ==
  [op |-> op, ok |-> r.res.ok, tok |-> r.res.tok, err |-> r.res.err,
   pos0 |-> pos, pos1 |-> r.res.pos, cache0 |-> peeked_token, cache1 |-> r.cache]

Remember(c) == IF Len(hist) = 3 THEN Tail(hist) \o <<c>> ELSE hist \o <<c>>

----------------------------------------------------------------------------
(* Actions *)

GetNextToken ==
  /\ Len(out) < MaxOut
  /\ LET r == get_next_token(input, pos, peeked_token)
     IN  /\ pos' = r.res.pos
         /\ peeked_token' = r.cache
         /\ out' = IF r.res.ok THEN Append(out, r.res.tok) ELSE out
         /\ hist' = Remember(Call("get", r))
  /\ UNCHANGED <<input, expect>>

PeekNextToken ==
  /\ Len(out) < MaxOut
  /\ LET r == peek_next_token(input, pos, peeked_token)
     IN  /\ pos' = r.res.pos
         /\ peeked_token' = r.cache
         /\ hist' = Remember(Call("peek", r))
  /\ UNCHANGED <<input, out, expect>>

Next == GetNextToken \/ PeekNextToken

----------------------------------------------------------------------------
(* Inputs *)

\* fragments of N-Triples text, well-formed and not
Pieces ==
  { <<Quote, Letter, Quote>>, <<Lt, Letter, Gt>>, <<Underscore, Colon, Letter>>,
    <<Hash, Letter>>, <<Dot>>, <<Space>>, <<Newline>>, <<At, Letter>>,
    <<Caret, Caret>>, <<Caret>>, <<Letter>>, <<Lt, Letter>>, <<Underscore>>,
    <<Quote>>, <<Caret, Letter>> }

RECURSIVE Texts(_)
Texts(k) ==
  IF k = 0 THEN {<<>>}
  ELSE LET shorter == Texts(k - 1)
       IN  shorter \cup {t \o x : t \in shorter, x \in Pieces}

\* NTriplesLexer::new(input)
New(text, tokens) ==
  /\ input = text
  /\ pos = 1
  /\ peeked_token = None
  /\ out = <<>>
  /\ hist = <<>>
  /\ expect = tokens

Init == \E text \in Texts(MaxPieces) : New(text, <<>>)

Spec == Init /\ [][Next]_vars

\* payloads of at most MaxText characters over an alphabet
TextOver(alphabet) == UNION {[1..n -> alphabet] : n \in 0..MaxText}

\* n copies of character c
Run(c, n) == [i \in 1..n |-> c]

\* A triple: blank node, URI, plain literal and '.', separated by whitespace.
InitTriple ==
  \E id \in TextOver({Letter, Colon}), uri \in TextOver({Letter, Space}),
     text \in TextOver({Letter, Lt}), w \in Whitespace, gap \in [1..3 -> 1..MaxGap] :
    New(<<Underscore, Colon>> \o id \o Run(w, gap[1])
          \o <<Lt>> \o uri \o <<Gt>> \o Run(w, gap[2])
          \o <<Quote>> \o text \o <<Quote>> \o Run(w, gap[3]) \o <<Dot>>,
        <<BlankNode(id), Uri(uri), Literal(text), TripleDelimiter>>)

SpecTriple == InitTriple /\ [][Next]_vars

\* Comment lines: '#' body, separated by one line-ending; the last line may
\* end with the input.  The expected payload is the whole body.
CommentBodies == UNION {[1..n -> {Letter, Space}] : n \in 0..(MaxText + 1)}

RECURSIVE CommentLines(_, _, _)
CommentLines(body, ending, i) ==
  IF i > Len(body) THEN <<>>
  ELSE <<Hash>> \o body[i] \o ending[i] \o CommentLines(body, ending, i + 1)

InitComments ==
  \E n \in 1..MaxComments :
    \E body \in [1..n -> CommentBodies],
       ending \in [1..n -> {<<Newline>>, <<Return>>, <<>>}] :
      /\ \A i \in 1..(n - 1) : ending[i] # <<>>
      /\ New(CommentLines(body, ending, 1), [i \in 1..n |-> Comment(body[i])])

SpecComments == InitComments /\ [][Next]_vars

\* Tokens separated by runs of one whitespace character, with optional
\* leading and trailing whitespace.
Lexemes ==
  { [text |-> <<Dot>>, tok |-> TripleDelimiter],
    [text |-> <<Quote, Letter, Quote>>, tok |-> Literal(<<Letter>>)],
    [text |-> <<Lt, Letter, Gt>>, tok |-> Uri(<<Letter>>)],
    [text |-> <<Underscore, Colon, Letter>>, tok |-> BlankNode(<<Letter>>)] }

RECURSIVE Spaced(_, _, _, _)
Spaced(lex, w, gap, i) ==
  IF i > Len(lex) THEN <<>>
  ELSE lex[i].text \o (IF i < Len(lex) THEN Run(w, gap[i]) ELSE <<>>)
         \o Spaced(lex, w, gap, i + 1)

InitSpaced ==
  \E n \in 1..MaxLexemes :
    \E lex \in [1..n -> Lexemes], w \in {Space, Newline},
       gap \in [1..(n - 1) -> 1..MaxGap], lead \in {0, MaxGap}, trail \in {0, MaxGap} :
      New(Run(w, lead) \o Spaced(lex, w, gap, 1) \o Run(w, trail),
          [i \in 1..n |-> lex[i].tok])

SpecSpaced == InitSpaced /\ [][Next]_vars

----------------------------------------------------------------------------
(* Properties *)

Calls == {hist[i] : i \in 1..Len(hist)}

\* the call found the cache empty and read the character source
Fresh(c) == c.cache0 = None

CharAt(i) == IF i \in 1..Len(input) THEN input[i] ELSE NoChar

\* index of the first character at or after p that is in S (not in S), or
\* Len(input) + 1 when there is none
FirstIn(p, S) ==
  IF \E i \in p..Len(input) : input[i] \in S
  THEN CHOOSE i \in p..Len(input) :
         input[i] \in S /\ \A j \in p..(i - 1) : input[j] \notin S
  ELSE Len(input) + 1

FirstNotIn(p, S) ==
  IF \E i \in p..Len(input) : input[i] \notin S
  THEN CHOOSE i \in p..Len(input) :
         input[i] \notin S /\ \A j \in p..(i - 1) : input[j] \in S
  ELSE Len(input) + 1

Blank == {" ", "\n", "\r"}

\* where the token read by call c starts
Start(c) == FirstNotIn(c.pos0, Blank)

\* the tokens returned by get_next_token are those expected, in order, then
\* EndOfInput, and no call has failed
Yields(tokens) ==
  /\ \A k \in 1..Len(out) :
       out[k] = IF k <= Len(tokens) THEN tokens[k] ELSE EndOfInput
  /\ \A c \in Calls : c.ok

\* C1: two successive successful peek_next_token calls return equal tokens,
\* the second leaves the cursor where it was, and a get_next_token that
\* follows them returns that same token.
PeekIsIdempotent ==
  \A i \in 1..(Len(hist) - 1) :
    (hist[i].op = "peek" /\ hist[i].ok /\ hist[i + 1].op = "peek" /\ hist[i + 1].ok)
      => /\ hist[i + 1].tok = hist[i].tok
         /\ hist[i + 1].pos1 = hist[i + 1].pos0
         /\ (i + 2 <= Len(hist) /\ hist[i + 2].op = "get")
              => (hist[i + 2].ok /\ hist[i + 2].tok = hist[i].tok)

\* peek, peek, get: the first peek read a URI from the source
PeekPeekGetSeen ==
  /\ Len(hist) = 3
  /\ hist[1].op = "peek" /\ hist[2].op = "peek" /\ hist[3].op = "get"
  /\ hist[1].ok /\ hist[2].ok /\ hist[3].ok
  /\ hist[1].tok.kind = "Uri"
  /\ hist[1].pos1 > hist[1].pos0
  /\ pos <= Len(input)

\* C2: for a blank node, a URI, a plain literal and '.', separated by
\* whitespace, get_next_token returns BlankNode(id), Uri(text),
\* Literal(text), TripleDelimiter in this order, nothing lost or repeated.
TripleIsTokenized == Yields(expect)

\* all four tokens of a triple with non-empty payloads have been returned
TripleRead ==
  /\ Len(out) >= 4
  /\ expect[1].a # <<>> /\ expect[2].a # <<>> /\ expect[3].a # <<>>

\* C3: a rule leaves the cursor right after the closing delimiter of its
\* construct: after a plain Literal the cursor is one past the closing
\* quote, after a Uri one past '>'.
CursorAfterClosingDelimiter ==
  \A c \in Calls :
    (Fresh(c) /\ c.ok)
      => /\ c.tok.kind = "Literal" => c.pos1 = FirstIn(Start(c) + 1, {"\""}) + 1
         /\ c.tok.kind = "Uri" => c.pos1 = FirstIn(Start(c) + 1, {">"}) + 1

HasText(body) == \E i \in 1..Len(body) : body[i] \notin Blank

\* a payload without its leading whitespace
Stripped(body) ==
  LET first == CHOOSE i \in 1..Len(body) :
                 body[i] \notin Blank /\ \A j \in 1..(i - 1) : body[j] \in Blank
  IN  SubSeq(body, first, Len(body))

DatatypeAnnotation ==
  \A c \in Calls :
    LET st == Start(c)
        q  == FirstIn(st + 1, {"\""})
        g  == FirstIn(q + 4, {">"})
    IN  (Fresh(c) /\ CharAt(st) = "\"" /\ CharAt(q + 1) = "^" /\ CharAt(q + 2) = "^")
          => IF CharAt(q + 3) = "<"
             THEN g <= Len(input)
                    => /\ c.ok
                       /\ c.tok = LiteralWithUrlDatatype(SubSeq(input, st + 1, q - 1),
                                                          SubSeq(input, q + 4, g - 1))
             ELSE ~c.ok /\ c.tok = None

\* a literal with a datatype URI has been read
DatatypeLiteralRead ==
  \E c \in Calls :
    Fresh(c) /\ c.ok /\ c.tok.kind = "LiteralWithUrlDatatype"
      /\ c.tok.a # <<>> /\ c.tok.b # <<>>

\* C7: a literal whose closing quote is followed by '@' yields
\* LiteralWithLanguageSpecification(text, tag), tag being the characters
\* after '@' up to the first node delimiter or the end of the input; the
\* delimiter stays unread.
LanguageTag ==
  \A c \in Calls :
    LET st == Start(c)
        q  == FirstIn(st + 1, {"\""})
        e  == FirstIn(q + 2, Blank \cup {".", "<", "\"", "_"})
    IN  (Fresh(c) /\ CharAt(st) = "\"" /\ CharAt(q + 1) = "@")
          => /\ c.ok
             /\ c.tok = LiteralWithLanguageSpecification(SubSeq(input, st + 1, q - 1),
                                                         SubSeq(input, q + 2, e - 1))
             /\ c.pos1 = e

\* a literal with a language tag has been read and a delimiter follows it
LanguageLiteralRead ==
  \E c \in Calls :
    Fresh(c) /\ c.ok /\ c.tok.kind = "LiteralWithLanguageSpecification"
      /\ c.tok.b # <<>> /\ c.pos1 <= Len(input)

\* C8: for tokens separated by one or more whitespace characters, with
\* optional leading and trailing whitespace, get_next_token returns the
\* tokens whatever the number of whitespace characters.
WhitespaceIsDiscarded == Yields(expect)

\* three tokens read from an input with leading whitespace and a gap of
\* more than one character
SpacedTokensRead ==
  /\ Len(expect) = 3 /\ Len(out) >= 4
  /\ input[1] \in Blank
  /\ \E i \in 2..(Len(input) - 2) : input[i] \in Blank /\ input[i + 1] \in Blank

\* C9: a call that fails leaves the cache as it found it.
FailureKeepsCache ==
  \A c \in Calls : ~c.ok => c.cache1 = c.cache0

\* a peek_next_token call has failed
PeekFailed ==
  /\ Len(hist) >= 1
  /\ hist[Len(hist)].op = "peek" /\ ~hist[Len(hist)].ok
  /\ peeked_token = None

\* C10: with an empty cache the first non-whitespace character decides:
\* '#' a Comment, '"' a literal token, '<' a Uri, '_' a BlankNode (or a
\* failure of that rule), '.' TripleDelimiter, none EndOfInput; any other
\* character fails with an invalid-input error naming it, without a token.
DispatchOnFirstCharacter ==
  \A c \in Calls :
    LET ch == CharAt(Start(c))
    IN  Fresh(c)
          => CASE ch = "#"  -> c.ok /\ c.tok.kind = "Comment"
               [] ch = "\"" -> c.ok => c.tok.kind \in {"Literal", "LiteralWithUrlDatatype",
                                                       "LiteralWithLanguageSpecification"}
               [] ch = "<"  -> c.ok => c.tok.kind = "Uri"
               [] ch = "_"  -> c.ok => c.tok.kind = "BlankNode"
               [] ch = "."  -> c.ok /\ c.tok = TripleDelimiter
               [] ch = NoChar -> c.ok /\ c.tok = EndOfInput
               [] OTHER     -> /\ ~c.ok
                               /\ c.tok = None
                               /\ c.err = Error("InvalidReaderInput", ch)

\* a call has failed on an unexpected character after leading whitespace
UnexpectedCharacterSeen ==
  \E c \in Calls :
    Fresh(c) /\ ~c.ok /\ Start(c) > c.pos0 /\ CharAt(Start(c)) \in {"a", "@", "^"}

NodeDelimiters == Blank \cup {".", "<", "\"", "_"}

\* C11: the end of the input inside a comment, or inside the identifier of
\* a blank node, ends the token: the call returns Comment, or BlankNode, of
\* the characters read so far, and the next call returns EndOfInput.
EndOfInputEndsCommentAndBlankNode ==
  /\ \A c \in Calls :
       LET st == Start(c)
       IN  /\ (Fresh(c) /\ CharAt(st) = "#" /\ FirstIn(st + 1, {"\n", "\r"}) > Len(input))
                => /\ c.ok
                   /\ c.tok = Comment(SubSeq(input, FirstNotIn(st + 1, Blank), Len(input)))
                   /\ c.pos1 = Len(input) + 1
           /\ (Fresh(c) /\ CharAt(st) = "_" /\ CharAt(st + 1) = ":"
                 /\ FirstIn(st + 2, NodeDelimiters) > Len(input))
                => /\ c.ok
                   /\ c.tok = BlankNode(SubSeq(input, st + 2, Len(input)))
                   /\ c.pos1 = Len(input) + 1
  /\ \A i \in 1..(Len(hist) - 1) :
       (Fresh(hist[i]) /\ hist[i].ok /\ hist[i].tok.kind \in {"Comment", "BlankNode"}
         /\ hist[i].pos1 = Len(input) + 1 /\ hist[i].op = "get")
         => (hist[i + 1].ok /\ hist[i + 1].tok = EndOfInput)

\* a comment cut off by the end of the input has been read, then EndOfInput
UnterminatedCommentRead ==
  /\ Len(hist) >= 2
  /\ hist[1].op = "get" /\ Fresh(hist[1]) /\ hist[1].tok.kind = "Comment"
  /\ hist[1].tok.a # <<>>
  /\ input[Len(input)] \notin {"\n", "\r"}
  /\ hist[2].op = "get" /\ hist[2].tok = EndOfInput

\* C12: an input that ends before the closing '>' of a URI, or of the
\* datatype URI of a literal, makes the call fail: no token is returned.
UnterminatedUriFails ==
  \A c \in Calls :
    LET st == Start(c)
        q  == FirstIn(st + 1, {"\""})
    IN  /\ (Fresh(c) /\ CharAt(st) = "<" /\ FirstIn(st + 1, {">"}) > Len(input))
             => (~c.ok /\ c.tok = None)
        /\ (Fresh(c) /\ CharAt(st) = "\"" /\ CharAt(q + 1) = "^" /\ CharAt(q + 3) = "<"
              /\ FirstIn(q + 4, {">"}) > Len(input))
             => (~c.ok /\ c.tok = None)

\* a call has failed on a datatype URI that the input ends in
UnterminatedDatatypeSeen ==
  \E c \in Calls :
    LET q == FirstIn(Start(c) + 1, {"\""})
    IN  Fresh(c) /\ ~c.ok /\ CharAt(Start(c)) = "\"" /\ CharAt(q + 1) = "^"
          /\ CharAt(q + 3) = "<" /\ c.pos1 = Len(input) + 1

\* the calls of hist that succeeded, as positions in hist
Succeeded == {i \in 1..Len(hist) : hist[i].ok}

\* C13: the cache is Empty (None) or Cached (one token).  It starts Empty;
\* a successful peek from Empty caches the token it returns; a peek in
\* Cached returns the cached token and keeps it; a get in Cached returns
\* the cached token and empties the cache; a get in Empty leaves it Empty.
\* So the cache is non-empty exactly when the last successful call was a peek.
CacheStateMachine ==
  /\ hist = <<>> => peeked_token = None
  /\ hist # <<>> => peeked_token = hist[Len(hist)].cache1
  /\ \A i \in 1..(Len(hist) - 1) : hist[i + 1].cache0 = hist[i].cache1
  /\ \A c \in Calls :
       /\ (c.op = "peek" /\ c.cache0 = None /\ c.ok)
            => (c.cache1 = c.tok /\ c.tok # None)
       /\ (c.op = "peek" /\ c.cache0 # None)
            => (c.ok /\ c.tok = c.cache0 /\ c.cache1 = c.cache0 /\ c.pos1 = c.pos0)
       /\ (c.op = "get" /\ c.cache0 # None)
            => (c.ok /\ c.tok = c.cache0 /\ c.cache1 = None /\ c.pos1 = c.pos0)
       /\ (c.op = "get" /\ c.cache0 = None) => c.cache1 = None
  /\ IF Succeeded # {}
     THEN (peeked_token # None)
            <=> (hist[CHOOSE i \in Succeeded : \A j \in Succeeded : j <= i].op = "peek")
     ELSE peeked_token = None

\* get in Empty, peek to Cached, get back to Empty
CacheFilledAndEmptied ==
  /\ Len(hist) = 3
  /\ hist[1].op = "get" /\ hist[1].cache0 = None /\ hist[1].ok
  /\ hist[2].op = "peek" /\ hist[2].cache0 = None /\ hist[2].ok
  /\ hist[2].tok.kind = "Literal"
  /\ hist[3].op = "get" /\ hist[3].cache0 # None
  /\ peeked_token = None

\* C14: LiteralWithUrlDatatype is returned only when the closing quote of
\* the literal is followed by exactly ^^< .
DatatypeNeedsTwoCarets ==
  \A c \in Calls :
    LET q == FirstIn(Start(c) + 1, {"\""})
    IN  (Fresh(c) /\ c.ok /\ c.tok.kind = "LiteralWithUrlDatatype")
          => (CharAt(q + 1) = "^" /\ CharAt(q + 2) = "^" /\ CharAt(q + 3) = "<")

\* C15: '_' followed by ':' yields BlankNode(id), id being the characters
\* after "_:" up to the first node delimiter, which stays unread; '_'
\* followed by another character, or by the end of the input, fails
\* without a token.
BlankNodeRule ==
  \A c \in Calls :
    LET st == Start(c)
        e  == FirstIn(st + 2, NodeDelimiters)
    IN  (Fresh(c) /\ CharAt(st) = "_")
          => IF CharAt(st + 1) = ":"
             THEN /\ c.ok
                  /\ c.tok = BlankNode(SubSeq(input, st + 2, e - 1))
                  /\ \A i \in 1..Len(c.tok.a) : c.tok.a[i] \notin NodeDelimiters
                  /\ c.pos1 = e
             ELSE ~c.ok /\ c.tok = None

\* a blank node has been read and the delimiter after it starts the next token
BlankNodeThenDelimiterRead ==
  /\ Len(hist) >= 2
  /\ Fresh(hist[1]) /\ hist[1].op = "get" /\ hist[1].tok.kind = "BlankNode"
  /\ hist[1].tok.a # <<>>
  /\ CharAt(hist[1].pos1) = "."
  /\ hist[2].op = "get" /\ hist[2].tok = TripleDelimiter

\* C16: a failure caused by input outside the grammar (an unexpected
\* character at the top level, a malformed datatype annotation, a blank node
\* without ':', an unterminated URI) has the error kind InvalidReaderInput,
\* not EndOfInput.
GrammarFailuresAreInvalidInput ==
  \A c \in Calls :
    LET st == Start(c)
        q  == FirstIn(st + 1, {"\""})
    IN  (Fresh(c) /\ ~c.ok
          /\ (CharAt(st) = "\"" => (q <= Len(input) /\ CharAt(q + 1) = "^")))
          => c.err.type = "InvalidReaderInput"

\* C17: when no call fails, the tokens returned by the get_next_token
\* calls, however peek_next_token calls are placed among them, are the
\* tokens that as many get_next_token calls return on the same input
\* without any peek.
LookaheadIsTransparent ==
  LET plain == get_next_tokens(input, 1, Len(out))
  IN  plain.ok => out = plain.toks

\* peek, get, peek on an input of at least two tokens
PeekedBetweenGets ==
  /\ Len(hist) = 3
  /\ hist[1].op = "peek" /\ hist[2].op = "get" /\ hist[3].op = "peek"
  /\ \A i \in 1..3 : hist[i].ok
  /\ Fresh(hist[3]) /\ hist[3].tok.kind = "Uri"
  /\ Len(out) >= 2 /\ out[Len(out)].kind = "BlankNode"

\* C18: a call that reads the source and returns a token other than
\* EndOfInput consumes at least one character; so get_next_token returns
\* at most as many such tokens as the input has characters, and every
\* token after them is EndOfInput.
TokensConsumeInput ==
  /\ \A c \in Calls :
       (Fresh(c) /\ c.ok /\ c.tok # EndOfInput) => c.pos1 > c.pos0
  /\ Cardinality({k \in 1..Len(out) : out[k] # EndOfInput}) <= Len(input)
  /\ \A k \in 1..Len(out) : k > Len(input) => out[k] = EndOfInput

\* as many tokens as the input has characters, then EndOfInput
EveryCharacterAToken ==
  /\ Len(input) = 3
  /\ Len(out) = 4
  /\ \A k \in 1..3 : out[k] = TripleDelimiter
  /\ out[4] = EndOfInput

\* the call failed at the dispatch, on a character no arm expects
FailedAtDispatch(c) ==
  /\ Fresh(c) /\ ~c.ok
  /\ CharAt(Start(c)) \notin {"#", "\"", "<", "_", ".", NoChar}

\* C19: a call that fails at the dispatch on an unexpected character leaves
\* the cursor on that character, so the next call, get or peek, fails on
\* the same character in the same way and EndOfInput is not reached.
UnexpectedCharacterStaysUnread ==
  /\ \A c \in Calls :
       FailedAtDispatch(c) => (c.pos1 = Start(c) /\ c.pos1 <= Len(input))
  /\ \A i \in 1..(Len(hist) - 1) :
       FailedAtDispatch(hist[i])
         => /\ FailedAtDispatch(hist[i + 1])
            /\ hist[i + 1].err = hist[i].err
            /\ hist[i + 1].pos1 = hist[i].pos1
            /\ hist[i + 1].tok # EndOfInput

\* three calls in a row have failed on the same character, found after
\* leading whitespace and followed by more input
FailedThriceOnOneCharacter ==
  /\ Len(hist) = 3
  /\ hist[1].op = "get" /\ hist[2].op = "peek" /\ hist[3].op = "get"
  /\ \A i \in 1..3 : FailedAtDispatch(hist[i])
  /\ hist[1].pos1 > hist[1].pos0
  /\ pos < Len(input)

====
